---- MODULE Spec2Model ----
(***************************************************************************)
(* Rhythm Guessing (script.js): the rhythm generator (generateForLevel and *)
(* its inner fillBar), the canonical key (barsKey), the copy helper        *)
(* (cloneBars) and the option builder (generateOptions).                   *)
(*                                                                         *)
(* Objects carry their identity: every token object and every bar array    *)
(* has a field ref, the address it was allocated at, so that a copy        *)
(* (Object.assign({}, t)) and an alias are different things in the model.  *)
(* Math.random is the input of the model: every use of it is a value       *)
(* drawn from a bounded set.                                               *)
(* In an action, the result of a call is bound as \E x \in {call}: the     *)
(* call is made once and x is its value.                                   *)
(***************************************************************************)
EXTENDS Integers, Sequences, FiniteSets, TLC

VARIABLES
    level,          \* levelSelect.value, the level key of the running call
    pc,             \* position of the running call
    requiredTokens, \* generateForLevel: requiredTokens (line 193)
    barReqs,        \* generateForLevel: barReqs (line 269)
    barTokens,      \* generateForLevel: barTokens (line 279), bars filled so far
    fills,          \* what each fillBar call did (tries, padding, trimming, warning)
    resampled,      \* the required tokens of this call differ from the previous call's
    heapNext,       \* next free object address
    correctBars,    \* generateOptions: correctBars
    options,        \* generateOptions: options
    seen,           \* generateOptions: seen
    attempts,       \* generateOptions: attempts
    padded,         \* generateOptions: copies pushed by the loop of lines 423-425
    result,         \* generateOptions: the returned {options, correctIndex}
    keyArgs,        \* the two rhythms barsKey is called with
    keys,           \* the strings barsKey returned for them
    currentCorrectIndex,  \* line 67; -1 is null
    currentRhythm,        \* line 68; <<>> is null
    attemptsRemaining,    \* line 69
    audioCtx,             \* line 72: whether the AudioContext exists
    scheduledOscillators, \* line 73: the number of oscillators in the array
    playbackTimeout,      \* line 74: the timer id held; 0 is null
    isPlaying,            \* line 75
    playBtnDisabled,      \* playBtn.disabled
    cards,                \* the option cards in optionsContainer: card idx holds cards[idx + 1]
    autoTimers,           \* pending timers set by lines 461 and 471 (newQuestion)
    finishTimers,         \* ids of the pending timers set by line 160 (finalizePlaybackState)
    played,               \* the rhythm playRhythm was last called with, while it sounds
    wrongClicks,          \* wrong clicks counted for the displayed question
    timersScheduled       \* timers set by clicks on the displayed question

vars == <<level, pc, requiredTokens, barReqs, barTokens, fills, resampled, heapNext,
          correctBars, options, seen, attempts, padded, result, keyArgs, keys,
          currentCorrectIndex, currentRhythm, attemptsRemaining, audioCtx,
          scheduledOscillators, playbackTimeout, isPlaying, playBtnDisabled, cards,
          autoTimers, finishTimers, played, wrongClicks, timersScheduled>>

\* the state of the page: the question, its option cards, the playback, the timers
pageVars == <<currentCorrectIndex, currentRhythm, attemptsRemaining, audioCtx,
              scheduledOscillators, playbackTimeout, isPlaying, playBtnDisabled, cards,
              autoTimers, finishTimers, played, wrongClicks, timersScheduled>>

-----------------------------------------------------------------------------
(* Bounds of the model *)

\* tokens.sort(()=>Math.random()-.5): the permutation is a rotation by at most MaxRot
MaxRot == 1
\* baseTypes.slice().sort(()=>Math.random()-.5): a rotation by at most MaxTypeRot
MaxTypeRot == 5
\* inside generateOptions one call of generateForLevel sees one value of
\* Math.random throughout, k / RandomGrid with k in 0..RandomGrid-1
RandomGrid == 4
\* the user resolves a question only while fewer than MaxAutoTimers
\* auto-advance timers are pending
MaxAutoTimers == 2
\* the rhythms barsKey is called with: bars of at most MaxKeyLen tokens, of the
\* first MaxKeyKinds kinds of token the generator produces
MaxKeyLen == 3
MaxKeyKinds == 4

-----------------------------------------------------------------------------
(* Program constants *)

UNITS_PER_QUARTER == 8
UNITS_PER_BAR == UNITS_PER_QUARTER * 4
maxTries == 1000
maxTrim == 50
maxAttempts == 200
optionCount == 4

\* a property the object does not have (JS undefined)
Undef == "undefined"

Levels == {"easy", "medium", "difficult"}

\* A catalog entry. dots is 0 and isTriplet is FALSE when the object has no
\* such property; base is Undef when it has none. ref 0 is the catalog itself
\* (the objects of TYPES are never put in a bar, only copies of them).
Type(n, u, d) ==
    [ref |-> 0, name |-> n, units |-> u, vfDur |-> d, dots |-> 0,
     isTriplet |-> FALSE, base |-> Undef]

TYPES ==
    [semibreve      |-> Type("semibreve", 32, "w"),
     minim          |-> Type("minim", 16, "h"),
     crotchet       |-> Type("crotchet", 8, "q"),
     quaver         |-> Type("quaver", 4, "8"),
     semiquaver     |-> Type("semiquaver", 2, "16"),
     demisemiquaver |-> Type("demisemiquaver", 1, "32")]

\* Math.floor(units * 1.5)
OneAndHalf(u) == (u * 3) \div 2

dottedOf(type) ==
    [ref |-> 0, name |-> "dotted-" \o type.name, units |-> OneAndHalf(type.units),
     vfDur |-> type.vfDur, dots |-> 1, isTriplet |-> FALSE, base |-> Undef]

\* base is a reference to the catalog object, held as its key in TYPES
tripletGroup(baseKey) ==
    [ref |-> 0, name |-> "triplet-" \o TYPES[baseKey].name, units |-> UNITS_PER_QUARTER,
     vfDur |-> Undef, dots |-> 0, isTriplet |-> TRUE, base |-> baseKey]

LEVELS ==
    [easy |->
        [allowed |-> <<"semibreve", "minim", "crotchet", "quaver">>,
         required |-> <<"semibreve", "minim", "crotchet", "quaver">>,
         allowDotted |-> FALSE, allowTriplets |-> FALSE, halfOfTypes |-> FALSE],
     medium |->
        [allowed |-> <<"semibreve", "minim", "crotchet", "quaver", "semiquaver">>,
         required |-> <<"semibreve", "minim", "crotchet", "quaver", "semiquaver",
                        "dotted", "triplet">>,
         allowDotted |-> TRUE, allowTriplets |-> TRUE, halfOfTypes |-> FALSE],
     difficult |->
        [allowed |-> <<"semibreve", "minim", "crotchet", "quaver", "semiquaver",
                       "demisemiquaver">>,
         required |-> <<>>,
         allowDotted |-> FALSE, allowTriplets |-> FALSE, halfOfTypes |-> TRUE]]

-----------------------------------------------------------------------------
(* Sequence helpers *)

Range(s) == {s[i] : i \in 1..Len(s)}

RECURSIVE SumUnits(_)
SumUnits(toks) == IF toks = <<>> THEN 0 ELSE Head(toks).units + SumUnits(Tail(toks))

\* types.find(t=>t.units<=n) || dflt: the first such element, dflt when none
RECURSIVE FindUnitsAtMost(_, _, _)
FindUnitsAtMost(types, n, dflt) ==
    IF types = <<>> THEN dflt
    ELSE IF Head(types).units <= n THEN Head(types)
    ELSE FindUnitsAtMost(Tail(types), n, dflt)

\* the rotation of s by k places to the left
Rotate(s, k) ==
    IF s = <<>> THEN s
    ELSE [i \in 1..Len(s) |-> s[((i - 1 + k) % Len(s)) + 1]]

\* the token without its identity
Shape(t) == [t EXCEPT !.ref = 0]

\* Object.assign({}, t): a new object at address r with t's own properties
\* (base still refers to the same catalog object)
CopyToken(t, r) == [t EXCEPT !.ref = r]

-----------------------------------------------------------------------------
(* barsKey *)

\* Array.prototype.join
RECURSIVE Join(_, _)
Join(strs, sep) ==
    IF strs = <<>> THEN ""
    ELSE IF Len(strs) = 1 THEN strs[1]
    ELSE strs[1] \o sep \o Join(Tail(strs), sep)

tokenKey(token) ==
    IF token.isTriplet
    THEN "triplet:" \o (IF token.base # Undef THEN TYPES[token.base].name ELSE "")
    ELSE token.name \o ":" \o ToString(token.units) \o ":"
         \o (IF token.vfDur # Undef /\ token.vfDur # "" THEN token.vfDur ELSE "")
         \o ":" \o ToString(token.dots)

\* bar.map(token=>...).join('-')
barKey(bar) == Join([i \in 1..Len(bar.toks) |-> tokenKey(bar.toks[i])], "-")

\* the bars joined with the separator of the tokens
barsKeyOneSeparator(bars) == Join([b \in 1..Len(bars) |-> barKey(bars[b])], "-")

\* lines 172-177
barsKey(bars) == Join([b \in 1..Len(bars) |-> barKey(bars[b])], "|")

-----------------------------------------------------------------------------
(* generateForLevel: pool and required tokens *)

\* lines 183-188: the allowed types, then their dotted variants
Allowed(cfg) ==
    LET base == [i \in 1..Len(cfg.allowed) |-> TYPES[cfg.allowed[i]]]
    IN  IF cfg.allowDotted
        THEN base \o [i \in 1..Len(base) |-> dottedOf(base[i])]
        ELSE base

tripletTemplate == tripletGroup("quaver")

\* the pool with the triplet pushed whatever cfg.allowTriplets says
AllowedPoolNoCheck(cfg) == Append(Allowed(cfg), tripletTemplate)

\* lines 227-229
AllowedPool(cfg) ==
    IF cfg.allowTriplets THEN Append(Allowed(cfg), tripletTemplate) ELSE Allowed(cfg)

\* lines 202-212: one entry of cfg.required
ResolveRequired(r) ==
    IF r = "dotted"
    THEN dottedOf(FindUnitsAtMost([i \in 1..Len(LEVELS.medium.allowed) |->
                                       TYPES[LEVELS.medium.allowed[i]]],
                                  16, TYPES.crotchet))
    ELSE IF r = "triplet" THEN tripletTemplate
    ELSE TYPES[r]

\* the choice with a type taken twice (the first key chosen again as the third)
HalfOfTypesRepeat(shuffled) ==
    <<TYPES[shuffled[1]], TYPES[shuffled[2]], TYPES[shuffled[1]]>>

\* lines 196-200: shuffled is a permutation of the base keys, the first
\* chooseCount of it are chosen
HalfOfTypes(shuffled) ==
    LET baseTypes == LEVELS.difficult.allowed
        chooseCount == IF Len(baseTypes) \div 2 >= 1 THEN Len(baseTypes) \div 2 ELSE 1
    IN  [i \in 1..chooseCount |-> TYPES[shuffled[i]]]

\* lines 193-213
RequiredTokens(cfg, shuffled) ==
    IF cfg.halfOfTypes THEN HalfOfTypes(shuffled)
    ELSE [i \in 1..Len(cfg.required) |-> ResolveRequired(cfg.required[i])]

\* lines 268-275: choice[i] is the bar drawn for the i-th required token
BarReqs(reqs, choice) ==
    [b \in 0..1 |->
        LET idx == SelectSeq([i \in 1..Len(reqs) |-> i], LAMBDA i : choice[i] = b)
        IN  [j \in 1..Len(idx) |-> reqs[idx[j]]]]

-----------------------------------------------------------------------------
(* fillBar *)

\* pickRandom(arr) at the n-th iteration of the fill loop. Math.random gives
\* the same value at every iteration of one fillBar call: rnd.pick is the index
\* it selects
pickRandom(arr, rnd, n) == arr[rnd.pick]

\* lines 221-224: s is [tokens, usedUnits, tries, pads, trims, next]
RECURSIVE PlaceRequired(_, _)
PlaceRequired(s, withRequiredTokens) ==
    IF withRequiredTokens = <<>> THEN s
    ELSE LET t == Head(withRequiredTokens)
         IN  PlaceRequired([s EXCEPT !.tokens = Append(@, CopyToken(t, s.next)),
                                     !.usedUnits = @ + t.units,
                                     !.next = @ + 1],
                           Tail(withRequiredTokens))

\* the fill loop without its budget of samples
FillGuardNoBudget(s) == s.usedUnits < UNITS_PER_BAR

\* line 234
FillGuard(s) == s.usedUnits < UNITS_PER_BAR /\ s.tries < maxTries

\* the fill loop pushing every sample, whatever the total becomes
FillStepNoCheck(s, allowedPool, rnd) ==
    LET cand == pickRandom(allowedPool, rnd, s.tries + 1)
    IN  [s EXCEPT !.tries = @ + 1,
                  !.tokens = Append(@, CopyToken(cand, s.next)),
                  !.usedUnits = @ + cand.units,
                  !.next = @ + 1]

\* lines 235-240: one iteration of the fill loop
FillStep(s, allowedPool, rnd) ==
    LET cand == pickRandom(allowedPool, rnd, s.tries + 1)
    IN  IF s.usedUnits + cand.units > UNITS_PER_BAR
        THEN [s EXCEPT !.tries = @ + 1]
        ELSE [s EXCEPT !.tries = @ + 1,
                       !.tokens = Append(@, CopyToken(cand, s.next)),
                       !.usedUnits = @ + cand.units,
                       !.next = @ + 1]

\* lines 234-241, at most n iterations. The sample is the same at every
\* iteration of one call, so an iteration that rejects it leaves a state in
\* which every later iteration rejects it too and does to tries what this one
\* did: those iterations are taken together, as many as the guard lets run.
RejectRest(s, s1, n) ==
    LET d == s1.tries - s.tries
        left == maxTries - s.tries
        k == IF d > 0 /\ (left + d - 1) \div d < n THEN (left + d - 1) \div d ELSE n
    IN  [s EXCEPT !.tries = @ + k * d]

RECURSIVE FillLoop(_, _, _, _)
FillLoop(s, allowedPool, rnd, n) ==
    IF n = 0 \/ ~FillGuard(s) THEN s
    ELSE LET s1 == FillStep(s, allowedPool, rnd)
         IN  IF s1.tokens = s.tokens /\ s1.usedUnits = s.usedUnits
             THEN RejectRest(s, s1, n)
             ELSE FillLoop(s1, allowedPool, rnd, n - 1)

\* line 244
PadGuard(s) == s.usedUnits < UNITS_PER_BAR

\* lines 245-247: smallest is a new object literal every time
PadStep(s) ==
    [s EXCEPT !.tokens = Append(@, [ref |-> s.next, name |-> "demisemiquaver", units |-> 1,
                                    vfDur |-> "32", dots |-> 0, isTriplet |-> FALSE,
                                    base |-> Undef]),
              !.usedUnits = @ + 1,
              !.pads = @ + 1,
              !.next = @ + 1]

\* lines 244-248: at most n iterations
RECURSIVE PadLoop(_, _)
PadLoop(s, n) == IF n = 0 \/ ~PadGuard(s) THEN s ELSE PadLoop(PadStep(s), n - 1)

\* line 252
TrimGuard(s) == s.usedUnits > UNITS_PER_BAR /\ Len(s.tokens) > 0 /\ s.trims < maxTrim

\* a pop that leaves usedUnits as it was
TrimStepKeepCount(s) ==
    [s EXCEPT !.tokens = SubSeq(@, 1, Len(@) - 1), !.trims = @ + 1]

\* lines 253-255
TrimStep(s) ==
    LET t == s.tokens[Len(s.tokens)]
    IN  [s EXCEPT !.tokens = SubSeq(@, 1, Len(@) - 1),
                  !.usedUnits = @ - t.units,
                  !.trims = @ + 1]

\* lines 251-256: at most n iterations
RECURSIVE TrimLoop(_, _)
TrimLoop(s, n) == IF n = 0 \/ ~TrimGuard(s) THEN s ELSE TrimLoop(TrimStep(s), n - 1)

\* lines 216-265. The bar array is allocated first (line 217), the tokens after
\* it; rnd is [pick, rot]: the sample of the fill loop and the
\* permutation the final sort leaves. The loops are run up to the number of
\* iterations their counters allow; halted tells whether each guard was false
\* by then. The record also tells what the call went through: the units after
\* the required tokens (required), the tokens the fill loop pushed (filled) and
\* the units after it (afterFill), whether the trim loop left a prefix of the
\* tokens (kept), and whether usedUnits was the sum of the units of the tokens
\* after every loop (counted).
fillBar(withRequiredTokens, allowedPool, rnd, at) ==
    LET s0 == [tokens |-> <<>>, usedUnits |-> 0, tries |-> 0, pads |-> 0, trims |-> 0,
               next |-> at + 1]
        s1 == PlaceRequired(s0, withRequiredTokens)
        s2 == FillLoop(s1, allowedPool, rnd, maxTries)
        s3 == PadLoop(s2, UNITS_PER_BAR)
        s4 == TrimLoop(s3, maxTrim)
    IN  [bar |-> [ref |-> at, toks |-> Rotate(s4.tokens, rnd.rot)],
         usedUnits |-> s4.usedUnits,
         tries |-> s4.tries,
         pads |-> s4.pads,
         trims |-> s4.trims,
         placed |-> {s1.tokens[i].ref : i \in 1..Len(s1.tokens)},
         halted |-> ~FillGuard(s2) /\ ~PadGuard(s3) /\ ~TrimGuard(s4),
         warned |-> s4.usedUnits # UNITS_PER_BAR,
         pick |-> rnd.pick,
         required |-> s1.usedUnits,
         filled |-> Len(s2.tokens) - Len(s1.tokens),
         afterFill |-> s2.usedUnits,
         kept |-> s4.tokens = SubSeq(s3.tokens, 1, Len(s4.tokens)),
         counted |-> \A s \in {s1, s2, s3, s4} : s.usedUnits = SumUnits(s.tokens),
         next |-> s4.next]

-----------------------------------------------------------------------------
(* The outcomes of Math.random *)

\* baseTypes.slice().sort(()=>Math.random()-.5): the orders of the base keys
\* the sort can leave, here the rotations by at most MaxTypeRot
ShuffledOrders == {Rotate(LEVELS.difficult.allowed, r) : r \in 0..MaxTypeRot}

Shuffles(cfg) == IF cfg.halfOfTypes THEN ShuffledOrders ELSE {<<>>}

\* Math.random() < 0.5 ? 0 : 1, once for each required token
Choices(reqs) == [1..Len(reqs) -> {0, 1}]

\* the sample of one fillBar call and the rotation its final sort leaves
FillRandoms(allowedPool) == [pick : 1..Len(allowedPool), rot : 0..MaxRot]

-----------------------------------------------------------------------------
(* generateForLevel, statement by statement. The call runs to its end once it
   has started: while pc is not "idle" only its next statement is enabled. *)

NoOptionState ==
    UNCHANGED <<correctBars, options, seen, attempts, padded, result, keyArgs, keys,
                pageVars>>

\* what fillBar did, without the bar it returned
FillRecord(f) ==
    [usedUnits |-> f.usedUnits, tries |-> f.tries, pads |-> f.pads, trims |-> f.trims,
     placed |-> f.placed, halted |-> f.halted, warned |-> f.warned, pick |-> f.pick,
     required |-> f.required, filled |-> f.filled, afterFill |-> f.afterFill,
     kept |-> f.kept, counted |-> f.counted]

\* lines 179-213 and 267-275: cfg, the required tokens and their bars
Resolve ==
    /\ pc = "idle"
    /\ \E reqs \in {RequiredTokens(LEVELS[level], shuffled) :
                        shuffled \in Shuffles(LEVELS[level])} :
          \E choice \in Choices(reqs) :
            /\ requiredTokens' = reqs
            /\ barReqs' = BarReqs(reqs, choice)
            /\ resampled' = (requiredTokens # <<>> /\ reqs # requiredTokens)
    /\ barTokens' = <<>>
    /\ fills' = <<>>
    /\ heapNext' = 1
    /\ pc' = "fill"
    /\ UNCHANGED level
    /\ NoOptionState

\* line 279: the next element of [fillBar(barReqs[0]), fillBar(barReqs[1])]
FillNextBar ==
    /\ pc = "fill"
    /\ Len(barTokens) < 2
    /\ \E rnd \in FillRandoms(AllowedPool(LEVELS[level])) :
          \E f \in {fillBar(barReqs[Len(barTokens)], AllowedPool(LEVELS[level]), rnd, heapNext)} :
              /\ barTokens' = Append(barTokens, f.bar)
              /\ fills' = Append(fills, FillRecord(f))
              /\ heapNext' = f.next
    /\ pc' = IF Len(barTokens) = 1 THEN "return" ELSE "fill"
    /\ UNCHANGED <<level, requiredTokens, barReqs, resampled>>
    /\ NoOptionState

\* line 281: {bars:barTokens} goes to the caller, the locals are gone
Return ==
    /\ pc = "return"
    /\ pc' = "idle"
    /\ barReqs' = [b \in 0..1 |-> <<>>]
    /\ barTokens' = <<>>
    /\ fills' = <<>>
    /\ heapNext' = 1
    /\ UNCHANGED <<level, requiredTokens, resampled>>
    /\ NoOptionState

-----------------------------------------------------------------------------
(* generateForLevel as one call, for its callers *)

\* lines 179-282: rnd is [shuffled, choice, fill0, fill1], at the first free
\* address; the two fillBar calls run left to right
generateForLevel(levelKey, rnd, at) ==
    LET cfg == LEVELS[levelKey]
        reqs == BarReqs(RequiredTokens(cfg, rnd.shuffled), rnd.choice)
        f0 == fillBar(reqs[0], AllowedPool(cfg), rnd.fill0, at)
        f1 == fillBar(reqs[1], AllowedPool(cfg), rnd.fill1, f0.next)
    IN  [bars |-> <<f0.bar, f1.bar>>, next |-> f1.next]

\* Math.random returning k / RandomGrid at every use within one call: the bar
\* of every required token, the index pickRandom selects. The comparator of the
\* two sorts is then a constant; they leave a rotation by k modulo MaxRot + 1
MockRandom(levelKey, k) ==
    LET cfg == LEVELS[levelKey]
        rot == k % (MaxRot + 1)
        shuffled == IF cfg.halfOfTypes THEN Rotate(LEVELS.difficult.allowed, rot) ELSE <<>>
        fill == [pick |-> ((k * Len(AllowedPool(cfg))) \div RandomGrid) + 1, rot |-> rot]
    IN  [shuffled |-> shuffled,
         choice |-> [i \in 1..Len(RequiredTokens(cfg, shuffled)) |->
                        IF 2 * k < RandomGrid THEN 0 ELSE 1],
         fill0 |-> fill,
         fill1 |-> fill]

MockRandoms(levelKey) == {MockRandom(levelKey, k) : k \in 0..(RandomGrid - 1)}

-----------------------------------------------------------------------------
(* cloneBars and generateOptions *)

\* bar.map(token=>Object.assign({}, token)): a new array at address at, the
\* copies of its tokens after it
cloneBar(bar, at) ==
    [ref |-> at, toks |-> [i \in 1..Len(bar.toks) |-> CopyToken(bar.toks[i], at + i)]]

\* cloneBars keeping the bar arrays and the token objects of its argument
cloneBarsAlias(bars, at) == [bars |-> bars, next |-> at]

\* lines 168-170
RECURSIVE cloneBars(_, _)
cloneBars(bars, at) ==
    IF bars = <<>> THEN [bars |-> <<>>, next |-> at]
    ELSE LET rest == cloneBars(Tail(bars), at + 1 + Len(Head(bars).toks))
         IN  [bars |-> <<cloneBar(Head(bars), at)>> \o rest.bars, next |-> rest.next]

\* a candidate is taken whatever its key
IsNewKeyAlways(seenKeys, key) == TRUE

\* line 418: !seen.has(key)
IsNewKey(seenKeys, key) == key \notin seenKeys

\* line 414
AttemptGuard == Len(options) < optionCount /\ attempts < maxAttempts

\* lines 423-425: st is [options, padded, next]
RECURSIVE PadOptions(_, _)
PadOptions(st, correct) ==
    IF ~(Len(st.options) < optionCount) THEN st
    ELSE LET c == cloneBars(correct, st.next)
         IN  PadOptions([options |-> Append(st.options, c.bars),
                         padded |-> st.padded + 1,
                         next |-> c.next], correct)

\* options.map((o,i)=>({o,i})).sort(()=>Math.random()-.5): the orders of the
\* indices 1..n the sort can leave, here every rotation
Orders(n) == {Rotate([i \in 1..n |-> i], r) : r \in 0..(n - 1)}

\* the correct index taken to be where the correct rhythm was pushed
correctIndexUnshuffled(order) == 0

\* line 429: order.findIndex(x=>x.i===0), 0-based; i is held 1-based
correctIndexOf(order) == (CHOOSE k \in 1..Len(order) : order[k] = 1) - 1

NoGeneratorState ==
    UNCHANGED <<requiredTokens, barReqs, barTokens, fills, resampled, keyArgs, keys,
                pageVars>>

\* newQuestion lines 486-488 up to generateOptions lines 411-413. The calls of
\* generateForLevel made from here on resolve their own required tokens: what
\* the last call followed step by step had resolved is not kept
CallGenerateOptions ==
    /\ pc = "idle"
    /\ \E rnd \in MockRandoms(level) :
          \E gen \in {generateForLevel(level, rnd, 1)} :
              /\ correctBars' = gen.bars
              /\ options' = <<gen.bars>>
              /\ seen' = {barsKey(gen.bars)}
              /\ heapNext' = gen.next
    /\ attempts' = 0
    /\ padded' = 0
    /\ result' = [options |-> <<>>, correctIndex |-> 0]
    /\ pc' = "options"
    /\ requiredTokens' = <<>>
    /\ resampled' = FALSE
    /\ UNCHANGED <<level, barReqs, barTokens, fills, keyArgs, keys, pageVars>>

\* lines 414-421: one iteration. A candidate that is not pushed is garbage:
\* its addresses are free again
Attempt ==
    /\ pc = "options"
    /\ AttemptGuard
    /\ attempts' = attempts + 1
    /\ \E rnd \in MockRandoms(level) :
          \E candidate \in {generateForLevel(level, rnd, heapNext)} :
          \E key \in {barsKey(candidate.bars)} :
              IF IsNewKey(seen, key)
              THEN /\ options' = Append(options, candidate.bars)
                   /\ seen' = seen \cup {key}
                   /\ heapNext' = candidate.next
              ELSE UNCHANGED <<options, seen, heapNext>>
    /\ UNCHANGED <<level, pc, correctBars, padded, result>>
    /\ NoGeneratorState

\* lines 423-431: padding, shuffle and return; the locals options, seen and
\* attempts are gone, the caller holds {options:shuffled, correctIndex}
Finish ==
    /\ pc = "options"
    /\ ~AttemptGuard
    /\ \E st \in {PadOptions([options |-> options, padded |-> 0, next |-> heapNext],
                              correctBars)} :
           /\ padded' = st.padded
           /\ heapNext' = st.next
           /\ \E order \in Orders(Len(st.options)) :
                 result' = [options |-> [k \in 1..Len(order) |-> st.options[order[k]]],
                            correctIndex |-> correctIndexOf(order)]
    /\ options' = <<>>
    /\ seen' = {}
    /\ attempts' = 0
    /\ pc' = "done"
    /\ UNCHANGED <<level, correctBars>>
    /\ NoGeneratorState

\* the caller asks for a new question: the option set is discarded
DiscardOptions ==
    /\ pc = "done"
    /\ pc' = "idle"
    /\ correctBars' = <<>>
    /\ padded' = 0
    /\ result' = [options |-> <<>>, correctIndex |-> 0]
    /\ heapNext' = 1
    /\ UNCHANGED <<level, options, seen, attempts>>
    /\ NoGeneratorState

-----------------------------------------------------------------------------
(* barsKey called on two rhythms *)

\* the kinds of token a bar returned for the selected level can hold: copies
\* of the entries of its pool (lines 183-190, 227-229) and the padding token
\* (line 245), which has the properties of TYPES.demisemiquaver. The first
\* MaxKeyKinds of them are used, in this order
KeyTokens ==
    LET order == <<tripletTemplate, TYPES.crotchet, dottedOf(TYPES.crotchet),
                   TYPES.demisemiquaver, TYPES.quaver, dottedOf(TYPES.quaver),
                   TYPES.semibreve, TYPES.minim, TYPES.semiquaver,
                   dottedOf(TYPES.minim), dottedOf(TYPES.semiquaver)>>
        held == SelectSeq(order, LAMBDA t :
                    t \in Range(AllowedPool(LEVELS[level])) \cup {TYPES.demisemiquaver})
    IN  SubSeq(held, 1, IF Len(held) < MaxKeyKinds THEN Len(held) ELSE MaxKeyKinds)

\* a bar as the kinds of its tokens: at most n tokens of k kinds
KindBars(k, n) == UNION {[1..m -> 1..k] : m \in 1..n}

\* a rhythm as its two bars: a first bar of at most MaxKeyLen tokens, a second
\* bar of one token
KindRhythms(k) == {<<b1, b2>> : b1 \in KindBars(k, MaxKeyLen), b2 \in KindBars(k, 1)}

\* the rhythm with these kinds built at address at, as fillBar builds a bar
\* (the array, then a copy of every pool entry pushed)
RECURSIVE MakeBars(_, _, _)
MakeBars(toks, kinds, at) ==
    IF kinds = <<>> THEN [bars |-> <<>>, next |-> at]
    ELSE LET bar == [ref |-> at,
                     toks |-> [i \in 1..Len(Head(kinds)) |->
                                  CopyToken(toks[Head(kinds)[i]], at + i)]]
             rest == MakeBars(toks, Tail(kinds), at + 1 + Len(Head(kinds)))
         IN  [bars |-> <<bar>> \o rest.bars, next |-> rest.next]

\* s with the elements at i and j exchanged
Swap(s, i, j) == [s EXCEPT ![i] = s[j], ![j] = s[i]]

\* the rhythms the second call is made with, given the first: the same kinds,
\* the bars exchanged, two tokens of a bar exchanged, a token replaced by one
\* of the k kinds, a token moved over the bar line, a token dropped; no bar is
\* left empty
Edits(r, k) ==
    LET all ==
            {r, <<r[2], r[1]>>}
            \cup {[r EXCEPT ![1] = Swap(r[1], i, j)] : i \in 1..Len(r[1]), j \in 1..Len(r[1])}
            \cup {[r EXCEPT ![2] = Swap(r[2], i, j)] : i \in 1..Len(r[2]), j \in 1..Len(r[2])}
            \cup {[r EXCEPT ![1][i] = n] : i \in 1..Len(r[1]), n \in 1..k}
            \cup {[r EXCEPT ![2][i] = n] : i \in 1..Len(r[2]), n \in 1..k}
            \cup {<<SubSeq(r[1], 1, Len(r[1]) - 1), <<r[1][Len(r[1])]>> \o r[2]>>,
                  <<Append(r[1], r[2][1]), Tail(r[2])>>,
                  <<SubSeq(r[1], 1, Len(r[1]) - 1), r[2]>>,
                  <<r[1], Tail(r[2])>>}
    IN  {e \in all : e[1] # <<>> /\ e[2] # <<>>}

\* lines 172-177 called on the first rhythm, on the second, and on the first
\* again
ApplyBarsKey ==
    /\ pc = "idle"
    /\ keyArgs # <<>>
    /\ keys = <<>>
    /\ keys' = <<barsKey(keyArgs[1]), barsKey(keyArgs[2]), barsKey(keyArgs[1])>>
    /\ UNCHANGED <<level, pc, requiredTokens, barReqs, barTokens, fills, resampled,
                   heapNext, correctBars, options, seen, attempts, padded, result,
                   keyArgs, pageVars>>

-----------------------------------------------------------------------------
(* generateOptions as one call, for newQuestion *)

\* lines 414-421 with a random source that steps through the grid: in the
\* n-th call of generateForLevel Math.random is (k + n) / RandomGrid. st is
\* [options, seen, attempts, next]; misses counts the candidates rejected in
\* a row. After RandomGrid of them the source has gone round with nothing
\* accepted, seen is as it was, and every later candidate is rejected too: the
\* loop then runs until attempts is 200.
RECURSIVE AttemptLoop(_, _, _, _)
AttemptLoop(st, levelKey, k, misses) ==
    IF ~(Len(st.options) < optionCount /\ st.attempts < maxAttempts) THEN st
    ELSE IF misses >= RandomGrid THEN [st EXCEPT !.attempts = maxAttempts]
    ELSE CHOOSE after \in
           {AttemptLoop(step.st, levelKey, k, step.misses) :
              step \in {IF IsNewKey(st.seen, c.key)
                        THEN [st |-> [options |-> Append(st.options, c.bars),
                                      seen |-> st.seen \cup {c.key},
                                      attempts |-> st.attempts + 1,
                                      next |-> c.next],
                              misses |-> 0]
                        ELSE [st |-> [st EXCEPT !.attempts = @ + 1],
                              misses |-> misses + 1] :
                c \in {[bars |-> candidate.bars, next |-> candidate.next,
                        key |-> barsKey(candidate.bars)] :
                  candidate \in {generateForLevel(levelKey,
                                     MockRandom(levelKey, (k + st.attempts + 1) % RandomGrid),
                                     st.next)}}}} : TRUE

\* lines 410-432 with the source k of the attempt loop: what the call can
\* return, one {options, correctIndex} for each order the final sort can leave
generateOptions(bars, levelKey, k, at) ==
    UNION {{[options |-> [i \in 1..Len(order) |-> full.options[order[i]]],
             correctIndex |-> correctIndexOf(order)] : order \in Orders(Len(full.options))} :
             full \in {PadOptions([options |-> st.options, padded |-> 0, next |-> st.next], bars) :
               st \in {AttemptLoop(first, levelKey, k, 0) :
                 first \in {[options |-> <<bars>>, seen |-> {barsKey(bars)},
                             attempts |-> 0, next |-> at]}}}}

-----------------------------------------------------------------------------
(* The page: questions, option clicks, playback, timers *)

\* clearTimeout that cancels nothing
clearTimeoutNothing(pending, id) == pending

\* clearTimeout(id) on the pending playback timers; an id that is not pending
\* (0, or a timer that has fired) cancels nothing
clearTimeout(pending, id) == pending \ {id}

\* setTimeout: the id of the new timer, one that no pending timer has
NewTimerId(pending) == CHOOSE id \in 1..(Cardinality(pending) + 1) : id \notin pending

\* lines 88-99, pending being the playback timers pending when it is called
finalizePlaybackState(pending) ==
    /\ isPlaying' = FALSE
    /\ scheduledOscillators' = 0
    /\ finishTimers' = IF playbackTimeout # 0 THEN clearTimeout(pending, playbackTimeout)
                       ELSE pending
    /\ playbackTimeout' = 0
    /\ playBtnDisabled' = FALSE
    /\ played' = [bars |-> <<>>, question |-> "none"]

\* lines 101-108: the oscillators are stopped, then finalizePlaybackState
stopPlayback(pending) == finalizePlaybackState(pending)

\* lines 141-155: one oscillator for each token, three for a triplet group
RECURSIVE OscillatorCount(_)
OscillatorCount(toks) ==
    IF toks = <<>> THEN 0
    ELSE (IF Head(toks).isTriplet THEN 3 ELSE 1) + OscillatorCount(Tail(toks))

\* lines 128-163. stopPlayback (line 133) has emptied scheduledOscillators and
\* cleared the timer held before the new ones are set
playRhythm(bars) ==
    IF bars = <<>>
    THEN UNCHANGED <<audioCtx, isPlaying, scheduledOscillators, finishTimers,
                     playbackTimeout, playBtnDisabled, played>>
    ELSE LET pending == IF playbackTimeout # 0
                        THEN clearTimeout(finishTimers, playbackTimeout)
                        ELSE finishTimers
             id == NewTimerId(pending)
         IN  /\ audioCtx' = TRUE
             /\ playBtnDisabled' = TRUE
             /\ isPlaying' = TRUE
             /\ scheduledOscillators' =
                    OscillatorCount(bars[1].toks) + OscillatorCount(bars[2].toks)
             /\ playbackTimeout' = id
             /\ finishTimers' = pending \cup {id}
             /\ played' = [bars |-> bars, question |-> "displayed"]

\* newQuestion never stopping a playback
StopsPlaybackNever == FALSE

\* line 492: if(isPlaying)
StopsPlayback == isPlaying

\* lines 485-503 for the level lv, auto being the auto-advance timers pending
\* afterwards. A playback that went on would be of a discarded question
newQuestion(lv, auto) ==
    /\ \E k \in 0..(RandomGrid - 1) :
          \E gen \in {generateForLevel(lv, MockRandom(lv, k), 1)} :
          \E q \in generateOptions(gen.bars, lv, k, gen.next) :
              /\ currentCorrectIndex' = q.correctIndex
              /\ currentRhythm' = q.options[q.correctIndex + 1]
              /\ cards' = q.options
    /\ attemptsRemaining' = 3
    /\ IF StopsPlayback
       THEN stopPlayback(finishTimers) /\ UNCHANGED audioCtx
       ELSE /\ played' = IF played.question = "none" THEN played
                         ELSE [played EXCEPT !.question = "discarded"]
            /\ UNCHANGED <<audioCtx, isPlaying, scheduledOscillators, finishTimers,
                           playbackTimeout, playBtnDisabled>>
    /\ autoTimers' = auto
    /\ wrongClicks' = 0
    /\ timersScheduled' = 0

\* what the page handlers leave alone
NoCallState ==
    UNCHANGED <<pc, requiredTokens, barReqs, barTokens, fills, resampled, heapNext,
                correctBars, options, seen, attempts, padded, result, keyArgs, keys>>

NoPlaybackChange ==
    UNCHANGED <<audioCtx, isPlaying, scheduledOscillators, finishTimers, playbackTimeout,
                playBtnDisabled, played>>

\* line 519: the first question, at the end of the script
LoadPage ==
    /\ cards = <<>>
    /\ newQuestion(level, autoTimers)
    /\ UNCHANGED level
    /\ NoCallState

\* line 506
NewClick ==
    /\ cards # <<>>
    /\ newQuestion(level, autoTimers)
    /\ UNCHANGED level
    /\ NoCallState

\* line 507: the user selects another level
LevelChange ==
    /\ cards # <<>>
    /\ \E lv \in Levels \ {level} :
          /\ level' = lv
          /\ newQuestion(lv, autoTimers)
    /\ NoCallState

\* a click that finds every try used and does nothing more
ClickIgnoredNever == FALSE

\* line 456
ClickIgnored == attemptsRemaining <= 0

\* lines 455-476: a click on the card idx. The user resolves a question only
\* while fewer than MaxAutoTimers auto-advance timers are pending
OptionClick ==
    /\ cards # <<>>
    /\ \E idx \in 0..(Len(cards) - 1) :
          IF ClickIgnored
          THEN UNCHANGED <<attemptsRemaining, autoTimers, wrongClicks, timersScheduled>>
          ELSE IF currentCorrectIndex = idx
          THEN /\ autoTimers < MaxAutoTimers
               /\ attemptsRemaining' = 0
               /\ autoTimers' = autoTimers + 1
               /\ timersScheduled' = timersScheduled + 1
               /\ UNCHANGED wrongClicks
          ELSE /\ attemptsRemaining = 1 => autoTimers < MaxAutoTimers
               /\ attemptsRemaining' = attemptsRemaining - 1
               /\ wrongClicks' = wrongClicks + 1
               /\ IF attemptsRemaining - 1 > 0
                  THEN UNCHANGED <<autoTimers, timersScheduled>>
                  ELSE /\ autoTimers' = autoTimers + 1
                       /\ timersScheduled' = timersScheduled + 1
    /\ UNCHANGED <<level, currentCorrectIndex, currentRhythm, cards>>
    /\ NoPlaybackChange
    /\ NoCallState

\* lines 461-464 and 471-473: a timer set by a click fires
AutoAdvanceFires ==
    /\ autoTimers > 0
    /\ newQuestion(level, autoTimers - 1)
    /\ UNCHANGED level
    /\ NoCallState

\* lines 508-516; a disabled button gets no click
PlayClick ==
    /\ cards # <<>>
    /\ ~playBtnDisabled
    /\ IF isPlaying
       THEN stopPlayback(finishTimers) /\ UNCHANGED audioCtx
       ELSE playRhythm(currentRhythm)
    /\ UNCHANGED <<level, currentCorrectIndex, currentRhythm, attemptsRemaining, cards,
                   autoTimers, wrongClicks, timersScheduled>>
    /\ NoCallState

\* lines 160-162: the timer id fires and is pending no more
PlaybackTimeoutFires ==
    /\ \E id \in finishTimers : finalizePlaybackState(finishTimers \ {id})
    /\ UNCHANGED <<level, currentCorrectIndex, currentRhythm, attemptsRemaining, cards,
                   autoTimers, wrongClicks, timersScheduled, audioCtx>>
    /\ NoCallState

-----------------------------------------------------------------------------
(* Specifications *)

\* the module state as lines 67-75 set it: no call is running, no question yet
InitPage ==
    /\ level \in Levels
    /\ pc = "idle"
    /\ requiredTokens = <<>>
    /\ barReqs = [b \in 0..1 |-> <<>>]
    /\ barTokens = <<>>
    /\ fills = <<>>
    /\ resampled = FALSE
    /\ heapNext = 1
    /\ correctBars = <<>>
    /\ options = <<>>
    /\ seen = {}
    /\ attempts = 0
    /\ padded = 0
    /\ result = [options |-> <<>>, correctIndex |-> 0]
    /\ currentCorrectIndex = -1
    /\ currentRhythm = <<>>
    /\ attemptsRemaining = 3
    /\ audioCtx = FALSE
    /\ scheduledOscillators = 0
    /\ playbackTimeout = 0
    /\ isPlaying = FALSE
    /\ playBtnDisabled = FALSE
    /\ cards = <<>>
    /\ autoTimers = 0
    /\ finishTimers = {}
    /\ played = [bars |-> <<>>, question |-> "none"]
    /\ wrongClicks = 0
    /\ timersScheduled = 0

Init == InitPage /\ keyArgs = <<>> /\ keys = <<>>

\* generateForLevel called again and again
Next == Resolve \/ FillNextBar \/ Return

Spec == Init /\ [][Next]_vars

\* generateOptions called again and again
NextOptions == CallGenerateOptions \/ Attempt \/ Finish \/ DiscardOptions

SpecOptions == Init /\ [][NextOptions]_vars

\* barsKey called on two rhythms: the same object twice, or a rhythm and one
\* built independently of it
InitKey ==
    /\ InitPage
    /\ keys = <<>>
    /\ \E toks \in {KeyTokens} : \E r \in KindRhythms(Len(toks)) :
          \E first \in {MakeBars(toks, r, 1)} :
             \/ keyArgs = <<first.bars, first.bars>>
             \/ \E e \in Edits(r, Len(toks)) :
                   keyArgs = <<first.bars, MakeBars(toks, e, first.next).bars>>

NextKey == ApplyBarsKey

SpecKey == InitKey /\ [][NextKey]_vars

\* the page: the handlers of its events, each run to its end
NextPage ==
    \/ LoadPage \/ NewClick \/ LevelChange \/ OptionClick \/ AutoAdvanceFires
    \/ PlayClick \/ PlaybackTimeoutFires

SpecPage == Init /\ [][NextPage]_vars

\* a pending playback timer fires (the browser runs due timers)
SpecPageFair == Init /\ [][NextPage]_vars /\ WF_vars(PlaybackTimeoutFires)

\* both callers
NextRun ==
    \/ Resolve \/ FillNextBar \/ Return
    \/ CallGenerateOptions \/ Attempt \/ Finish \/ DiscardOptions

SpecRun == Init /\ [][NextRun]_vars

-----------------------------------------------------------------------------
(* Properties of generateForLevel, stated where it returns (line 281) *)

Returned == pc = "return"

\* the tokens of the two returned bars
ReturnedTokens == UNION {Range(barTokens[b].toks) : b \in 1..Len(barTokens)}

CatalogNames == {TYPES[k].name : k \in DOMAIN TYPES}

EasyNames == {TYPES[LEVELS.easy.allowed[i]].name : i \in 1..Len(LEVELS.easy.allowed)}

\* C1: each of the two bars generateForLevel returns has token units summing
\* to exactly 32, for every level and every outcome of the random choices.
C1_BarsSumToCapacity ==
    Returned => \A b \in 1..2 : SumUnits(barTokens[b].toks) = UNITS_PER_BAR

\* C2: a rhythm returned for the medium level holds at least one dotted token
\* and at least one triplet-group token across its two bars.
C2_MediumHasDottedAndTriplet ==
    (Returned /\ level = "medium") =>
        /\ \E t \in ReturnedTokens : t.dots > 0
        /\ \E t \in ReturnedTokens : t.isTriplet

\* C3: every required token is placed in the bar it was assigned to and is
\* still in that bar when it is returned; for easy, the rhythm holds a
\* semibreve, a minim, a crotchet and a quaver.
C3_RequiredTokensKept ==
    Returned =>
        /\ \A b \in 1..2 :
              /\ Cardinality(fills[b].placed) = Len(barReqs[b - 1])
              /\ \A r \in fills[b].placed : \E t \in Range(barTokens[b].toks) : t.ref = r
        /\ level = "easy" => \A n \in EasyNames : \E t \in ReturnedTokens : t.name = n

\* C4 as claimed: every bar returned for the easy level holds only semibreve,
\* minim, crotchet and quaver tokens, also when the 1000 samples are used up.
C4_EasyOnlyAllowedNames ==
    (Returned /\ level = "easy") => \A t \in ReturnedTokens : t.name \in EasyNames

\* C4 as amended: every token of a bar returned for the easy level is a plain
\* semibreve, minim, crotchet or quaver, or a 1-unit demisemiquaver; a bar holds
\* demisemiquavers only when its 1000 samples were used up, and they are as
\* many as the padding loop pushed.
C4_EasyAllowedOrPadding ==
    (Returned /\ level = "easy") =>
        \A b \in 1..2 :
            LET toks == barTokens[b].toks
                small == {i \in 1..Len(toks) : toks[i].name = TYPES.demisemiquaver.name}
            IN  /\ \A i \in 1..Len(toks) :
                      /\ toks[i].name \in EasyNames \cup {TYPES.demisemiquaver.name}
                      /\ toks[i].dots = 0 /\ ~toks[i].isTriplet
                /\ small # {} => fills[b].tries = maxTries
                /\ Cardinality(small) = fills[b].pads

\* an easy rhythm is returned with a bar that was padded after 1000 samples
C4_Witness ==
    /\ Returned /\ level = "easy"
    /\ \E b \in 1..2 :
          /\ fills[b].tries = maxTries /\ fills[b].pads > 0
          /\ \E t \in Range(barTokens[b].toks) : t.name = TYPES.demisemiquaver.name

\* C7: a call for the difficult level resolves exactly 3 pairwise-distinct
\* catalog types as its required tokens, and every token of the rhythm it
\* returns has the name of one of the 6 catalog types.
C7_DifficultHalfOfTypes ==
    (level = "difficult" /\ pc \in {"fill", "return"}) =>
        /\ Len(requiredTokens) = 3
        /\ \A i, j \in 1..Len(requiredTokens) : i # j => requiredTokens[i] # requiredTokens[j]
        /\ \A i \in 1..Len(requiredTokens) : requiredTokens[i] \in {TYPES[k] : k \in DOMAIN TYPES}
        /\ Returned => \A t \in ReturnedTokens : t.name \in CatalogNames

\* a difficult call returns after resolving other required types than the
\* call before it
C7_Witness ==
    /\ Returned /\ level = "difficult" /\ resampled
    /\ Len(requiredTokens) = 3

-----------------------------------------------------------------------------
(* Properties of generateOptions, stated where it has returned (line 431) *)

OptionsReturned == pc = "done"

\* the addresses of the bar arrays and token objects of one option
OptionRefs(bars) ==
    {bars[b].ref : b \in 1..Len(bars)}
    \cup UNION {{bars[b].toks[i].ref : i \in 1..Len(bars[b].toks)} : b \in 1..Len(bars)}

\* C5: generateOptions returns exactly 4 options and a correctIndex in 0..3,
\* and the option at correctIndex has the canonical key of the rhythm passed
\* in as the correct answer, whatever order the final shuffle leaves.
C5_FourOptionsCorrectIndex ==
    OptionsReturned =>
        /\ Len(result.options) = optionCount
        /\ result.correctIndex \in 0..(optionCount - 1)
        /\ barsKey(result.options[result.correctIndex + 1]) = barsKey(correctBars)

\* the shuffle has moved the correct rhythm away from index 0, and the option
\* now at index 0 has another key
C5_Witness ==
    /\ OptionsReturned
    /\ result.correctIndex > 0
    /\ barsKey(result.options[1]) # barsKey(correctBars)

\* C6: when three candidates were accepted the 4 returned options have
\* pairwise-distinct canonical keys and no copy of the correct rhythm is
\* pushed; a copy is pushed only after all 200 attempts were made and fewer
\* than three candidates were accepted.
C6_DistinctUnlessExhausted ==
    /\ [](OptionsReturned /\ padded = 0 =>
            \A i, j \in 1..Len(result.options) :
                i # j => barsKey(result.options[i]) # barsKey(result.options[j]))
    /\ [][(pc = "options" /\ pc' = "done" /\ Len(options) = optionCount) =>
             padded' = 0]_vars
    /\ [][(pc = "options" /\ pc' = "done" /\ padded' > 0) =>
             (attempts = maxAttempts /\ Len(options) < optionCount
              /\ padded' = optionCount - Len(options))]_vars

\* three candidates were accepted: four options, none of them a pushed copy
C6_Witness ==
    /\ OptionsReturned
    /\ padded = 0
    /\ Cardinality({barsKey(result.options[i]) : i \in 1..Len(result.options)}) = optionCount

\* C10: no bar array and no token object belongs to two different options of
\* a returned option set, the padded copies of the correct rhythm included.
C10_OptionsShareNothing ==
    OptionsReturned =>
        \A i, j \in 1..Len(result.options) :
            i # j => OptionRefs(result.options[i]) \cap OptionRefs(result.options[j]) = {}

\* an option set is returned in which a slot holds a pushed copy of the
\* correct rhythm: two options with the same key and no common object
C10_Witness ==
    /\ OptionsReturned
    /\ padded > 0
    /\ \E i, j \in 1..Len(result.options) :
          /\ i # j
          /\ barsKey(result.options[i]) = barsKey(result.options[j])
          /\ OptionRefs(result.options[i]) \cap OptionRefs(result.options[j]) = {}

-----------------------------------------------------------------------------
(* Properties of barsKey *)

\* same name, units, duration code and dot count, or same triplet base
SameToken(a, b) ==
    IF a.isTriplet \/ b.isTriplet
    THEN a.isTriplet /\ b.isTriplet /\ a.base = b.base
    ELSE a.name = b.name /\ a.units = b.units /\ a.vfDur = b.vfDur /\ a.dots = b.dots

\* the same bars in the same order, token for token
SameRhythm(r1, r2) ==
    /\ Len(r1) = Len(r2)
    /\ \A b \in 1..Len(r1) :
          /\ Len(r1[b].toks) = Len(r2[b].toks)
          /\ \A i \in 1..Len(r1[b].toks) : SameToken(r1[b].toks[i], r2[b].toks[i])

\* C8: barsKey gives the same string when called again on the same rhythm,
\* and the keys of two rhythms are equal if and only if the rhythms have the
\* same bars in the same order with token-for-token identical sequences.
C8_KeyEqualIffSameRhythm ==
    keys # <<>> =>
        /\ keys[3] = keys[1]
        /\ (keys[1] = keys[2]) <=> SameRhythm(keyArgs[1], keyArgs[2])

\* the second rhythm is the first with two different tokens of its first bar
\* exchanged, built from other objects, and the keys differ
C8_Witness ==
    /\ keys # <<>>
    /\ keys[1] # keys[2]
    /\ LET t1 == keyArgs[1][1].toks
           t2 == keyArgs[2][1].toks
       IN  /\ Len(t1) = 2 /\ Len(t2) = 2
           /\ ~SameToken(t1[1], t1[2])
           /\ SameToken(t1[1], t2[2]) /\ SameToken(t1[2], t2[1])
           /\ t1[1].ref # t2[2].ref
    /\ SameRhythm(<<keyArgs[1][2]>>, <<keyArgs[2][2]>>)

-----------------------------------------------------------------------------
(* Termination *)

\* C9: generateForLevel and generateOptions run to their return in a bounded
\* number of steps. Every fillBar call ends with its three loops over, after
\* at most 1000 samples, at most 32 padding tokens and at most 50 trimmed
\* tokens; a running generateForLevel has a fillBar call left to make, each
\* one fills one more bar, and with two bars it returns; a running
\* generateOptions either makes one more attempt, of at most 200, or pads
\* and returns 4 options.
C9_CallsTerminate ==
    /\ [](\A b \in 1..Len(fills) :
            /\ fills[b].halted
            /\ fills[b].tries <= maxTries
            /\ fills[b].pads <= UNITS_PER_BAR
            /\ fills[b].trims <= maxTrim)
    /\ [](pc = "fill" => Len(barTokens) < 2)
    /\ [](pc = "return" => Len(barTokens) = 2)
    /\ [][pc = "fill" =>
             (Len(barTokens') = Len(barTokens) + 1 /\ pc' \in {"fill", "return"})]_vars
    /\ [](attempts <= maxAttempts)
    /\ [][pc = "options" =>
             IF AttemptGuard
             THEN attempts' = attempts + 1 /\ pc' = "options"
             ELSE pc' = "done" /\ Len(result'.options) = optionCount]_vars

\* generateOptions has returned for the medium level after falling back to
\* copies of the correct rhythm, with an option of which a bar was padded
\* after 1000 samples (the medium pool has no demisemiquaver)
C9_Witness ==
    /\ OptionsReturned
    /\ padded > 0
    /\ level = "medium"
    /\ \E i \in 1..Len(result.options) : \E b \in 1..2 :
          \E t \in Range(result.options[i][b].toks) : t.name = "demisemiquaver"

-----------------------------------------------------------------------------
(* Properties of fillBar, stated on the record of each call *)

\* C11: a bar whose tokens exceeded 32 units has only its last tokens
\* removed, down to a total at or under 32, and is then padded: the bar
\* returned totals exactly 32 units.
C11_TrimThenPadToCapacity ==
    \A b \in 1..Len(fills) :
        fills[b].trims > 0 =>
            /\ fills[b].kept
            /\ fills[b].usedUnits <= UNITS_PER_BAR
            /\ SumUnits(barTokens[b].toks) = UNITS_PER_BAR

\* C12: the required tokens assigned to a bar total at most 32 units, so the
\* accumulated units of a bar never exceed 32.
C12_RequiredTokensFit ==
    /\ pc \in {"fill", "return"} => \A b \in 0..1 : SumUnits(barReqs[b]) <= UNITS_PER_BAR
    /\ \A b \in 1..Len(fills) :
          fills[b].required <= UNITS_PER_BAR /\ fills[b].afterFill <= UNITS_PER_BAR

\* C13: the fill loop pushes a sample only if the total stays at or below 32
\* (the total only grows, so it is enough that it is at most 32 after the last
\* push), it draws at most 1000 samples, and padding tokens are pushed only
\* after 1000 samples left the bar below 32 units.
C13_FillWithinCapacityThenPad ==
    \A b \in 1..Len(fills) :
        /\ fills[b].filled > 0 => fills[b].afterFill <= UNITS_PER_BAR
        /\ fills[b].tries <= maxTries
        /\ fills[b].pads > 0 =>
              (fills[b].tries = maxTries /\ fills[b].afterFill < UNITS_PER_BAR)

\* a bar to which the fill loop pushed samples and which was padded after the
\* 1000th sample
C13_Witness ==
    \E b \in 1..Len(fills) :
        fills[b].filled > 0 /\ fills[b].pads > 0 /\ fills[b].tries = maxTries

\* C14: every fillBar call returns a bar; the warning is given if and only if
\* the units of the tokens of the returned bar do not sum to 32, usedUnits
\* being the sum of the units of the tokens held after every loop; and
\* generateForLevel returns the two bars, each filled once.
C14_WarnIffMismatch ==
    /\ Len(barTokens) = Len(fills)
    /\ \A b \in 1..Len(fills) :
          /\ fills[b].counted
          /\ fills[b].usedUnits = SumUnits(barTokens[b].toks)
          /\ fills[b].warned <=> (SumUnits(barTokens[b].toks) # UNITS_PER_BAR)
    /\ Returned => Len(barTokens) = 2

\* a rhythm is returned of which one bar was warned about and the other not
C14_Witness ==
    /\ Returned
    /\ \E b, c \in 1..2 :
          /\ fills[b].warned /\ SumUnits(barTokens[b].toks) # UNITS_PER_BAR
          /\ ~fills[c].warned

\* C15: for the easy level with Math.random always 0 (every required token
\* drawn into bar 0, every sample the first pool entry), bar 0 is one
\* semibreve, pushed by the first sample of the fill loop, and no padding token
\* is pushed.
C15_EasyZeroRandomFirstSample ==
    (Returned /\ level = "easy" /\ barReqs[1] = <<>>
        /\ fills[1].pick = 1 /\ fills[2].pick = 1) =>
        /\ [i \in 1..Len(barTokens[1].toks) |-> barTokens[1].toks[i].name] = <<"semibreve">>
        /\ fills[1].pads = 0
        /\ fills[1].filled = 1 /\ fills[1].tries = 1

-----------------------------------------------------------------------------
(* Properties of the page *)

\* C16: attemptsRemaining stays in 0..3; at most 3 wrong clicks are counted
\* for a displayed question; a timer is set only by a click that takes
\* attemptsRemaining from above 0 to 0, and from 0 it changes only to 3 (a new
\* question), so a displayed question sets at most one auto-advance timer.
C16_AttemptsBounded ==
    /\ [](attemptsRemaining \in 0..3)
    /\ [](wrongClicks <= 3 /\ timersScheduled <= 1)
    /\ [][autoTimers' > autoTimers =>
             (attemptsRemaining > 0 /\ attemptsRemaining' = 0)]_vars
    /\ [][(attemptsRemaining = 0 /\ attemptsRemaining' # 0) =>
             (attemptsRemaining' = 3 /\ wrongClicks' = 0 /\ timersScheduled' = 0)]_vars

\* the third wrong click on a question has set its timer, while a timer of
\* an earlier question is still pending
C16_Witness ==
    /\ attemptsRemaining = 0
    /\ wrongClicks = 3
    /\ timersScheduled = 1
    /\ autoTimers = 2

\* C17: an auto-advance timer that fires (the only step after which fewer
\* such timers are pending) replaces only a resolved question, one with
\* attemptsRemaining at 0; a question with tries left is replaced only by a
\* New click or a level change.
C17_TimerReplacesOnlyResolved ==
    [][autoTimers' < autoTimers => attemptsRemaining = 0]_vars

\* C18: isPlaying is true exactly when the playback-finish timeout is held
\* and pending and the Play button is disabled; at most one such timeout is
\* pending; a playback that has started ends with isPlaying false and the
\* button enabled.
C18_PlayingIffTimeoutPending ==
    /\ [](isPlaying <=> playbackTimeout # 0)
    /\ [](isPlaying <=> playBtnDisabled)
    /\ [](finishTimers = IF playbackTimeout # 0 THEN {playbackTimeout} ELSE {})
    /\ [](Cardinality(finishTimers) <= 1)
    /\ (isPlaying ~> (~isPlaying /\ ~playBtnDisabled))

\* a playback is on, started after an earlier one was over
C18_Witness ==
    /\ isPlaying /\ playBtnDisabled
    /\ finishTimers = {playbackTimeout}
    /\ scheduledOscillators > 0
    /\ autoTimers > 0

\* C19: after every newQuestion no playback is on, currentRhythm is the option at
\* currentCorrectIndex of the displayed cards, and whenever isPlaying is true
\* the rhythm that sounds is that rhythm, of the displayed question.
C19_PlaysDisplayedQuestion ==
    /\ [](cards # <<>> =>
            /\ currentCorrectIndex \in 0..(Len(cards) - 1)
            /\ currentRhythm = cards[currentCorrectIndex + 1])
    /\ [](played.question # "discarded")
    /\ [](isPlaying => (played.question = "displayed" /\ played.bars = currentRhythm))
    \* a step that displays other cards, consumes a timer or restores the
    \* tries is a call of newQuestion: no playback is on after it
    /\ [][(cards' # cards \/ autoTimers' < autoTimers \/ attemptsRemaining' > attemptsRemaining)
             => ~isPlaying']_vars

\* the rhythm of a question on which a wrong click was counted is playing
C19_Witness ==
    /\ isPlaying
    /\ played.bars = cards[currentCorrectIndex + 1]
    /\ wrongClicks > 0
    /\ currentCorrectIndex > 0

====
